---- MODULE Spec2Model ----
(***************************************************************************)
(* Model of app12.py: the natural-language-to-SQL pipeline.                *)
(*                                                                         *)
(*   get_gemini_response  (Query Synthesizer)       app12.py 82-93         *)
(*   read_sqlite_query    (Query Executor)          app12.py 96-110        *)
(*   list_tables          (Schema Guard)            app12.py 113-126       *)
(*   the submit branch    (pipeline and shaping)    app12.py 141-168       *)
(*                                                                         *)
(* Strings are sequences of one-character strings, so that str.strip and   *)
(* str.replace are computed character by character as Python does.         *)
(* Two specifications:                                                     *)
(*   Spec       the script, one run per press of the button;               *)
(*   StripSpec  the clean-up of lines 87-89 applied to bounded texts.      *)
(***************************************************************************)
EXTENDS Integers, Sequences, FiniteSets, TLC

VARIABLES pc, runs, question, submit, sql_query, tables, data, columns,
          shown, df, conn, calls, synthOutcome, guardOutcome, execOutcome,
          text, once, twice, spc

vars == <<pc, runs, question, submit, sql_query, tables, data, columns,
          shown, df, conn, calls, synthOutcome, guardOutcome, execOutcome,
          text, once, twice, spc>>

pipeVars == <<pc, runs, question, submit, sql_query, tables, data, columns,
              shown, df, conn, calls, synthOutcome, guardOutcome, execOutcome>>

stripVars == <<text, once, twice, spc>>

(***************************************************************************)
(* Bounds                                                                  *)
(***************************************************************************)
MaxRuns == 2
MaxRows == 2
MaxArity == 2
MaxLen == 6
MaxPieces == 4

(***************************************************************************)
(* Python values                                                           *)
(***************************************************************************)
\* None is the empty tuple and a value v is the 1-tuple of v
None == <<>>

Some(v) == <<v>>

Range(s) == {s[i] : i \in 1..Len(s)}

\* the backquote character U+0060 (the lexer does not take it inside a string)
BT == "bq"

Fence == <<BT, BT, BT>>

FenceSql == <<BT, BT, BT, "s", "q", "l">>

\* the characters str.strip() removes
Whitespace == {" ", "\n", "\t"}

RECURSIVE LStrip(_)
LStrip(s) ==
  IF s = <<>> THEN <<>>
  ELSE IF s[1] \in Whitespace THEN LStrip(Tail(s)) ELSE s

RECURSIVE RStrip(_)
RStrip(s) ==
  IF s = <<>> THEN <<>>
  ELSE IF s[Len(s)] \in Whitespace THEN RStrip(SubSeq(s, 1, Len(s) - 1)) ELSE s

\* str.strip()
Strip(s) == RStrip(LStrip(s))

StartsWith(s, old) == Len(s) >= Len(old) /\ SubSeq(s, 1, Len(old)) = old

\* str.replace(old, ''): every non-overlapping occurrence, left to right
RECURSIVE Replace(_, _)
Replace(s, old) ==
  IF Len(s) < Len(old) THEN s
  ELSE IF StartsWith(s, old) THEN Replace(SubSeq(s, Len(old) + 1, Len(s)), old)
  ELSE <<s[1]>> \o Replace(Tail(s), old)

\* str.replace(old, '', 1): the first occurrence only
RECURSIVE ReplaceFirst(_, _)
ReplaceFirst(s, old) ==
  IF Len(s) < Len(old) THEN s
  ELSE IF StartsWith(s, old) THEN SubSeq(s, Len(old) + 1, Len(s))
  ELSE <<s[1]>> \o ReplaceFirst(Tail(s), old)

CleanQueryFirstOnly(t) == Strip(ReplaceFirst(ReplaceFirst(Strip(t), FenceSql), Fence))

\* lines 87-89: response.text.strip(), both replace calls, strip()
CleanQuery(t) == Strip(Replace(Replace(Strip(t), FenceSql), Fence))

ContainsFence(s) == \E i \in 1..Len(s) : StartsWith(SubSeq(s, i, Len(s)), Fence)

TruthyNotNone(o) == o # None

\* truth value of an optional string: None and '' are false
Truthy(o) == o # None /\ o[1] # <<>>

(***************************************************************************)
(* What the collaborators can hand back                                    *)
(***************************************************************************)
Questions == {<<>>, <<"q">>}

Sql1 == <<"S", "E", "L", "E", "C", "T", " ", "1">>

ResponseTexts ==
  { Sql1,
    FenceSql \o <<"\n">> \o Sql1 \o <<"\n">> \o Fence,
    <<" ", "\n", " ">>,
    FenceSql \o Fence,
    <<BT>> \o FenceSql \o <<BT, BT>> \o Sql1 }

\* rows of sqlite_master, each a 1-tuple
Catalogs ==
  { <<>>,
    << <<"sales_data">> >>,
    << <<"other">> >>,
    << <<"other">>, <<"sales_data">> >> }

Row(k) == [i \in 1..k |-> "v"]

Rows == {Row(k) : k \in 1..MaxArity}

RowLists == UNION {[1..n -> Rows] : n \in 0..MaxRows}

Labels(k) == [i \in 1..k |-> "c"]

ColumnLists == {Labels(k) : k \in 0..MaxArity}

(***************************************************************************)
(* Display collaborator                                                    *)
(***************************************************************************)
Msg(k, t, d) == [kind |-> k, text |-> t, detail |-> d]

SynthErr == Msg("error", "Error generating SQL: ", "generate_content failed")

TableMissingMsg == Msg("error", "Table 'sales_data' does not exist in the database.", "")

MismatchMsg == Msg("error", "Mismatch between the number of columns in the result and the expected structure.", "")

NoDataMsg == Msg("warning", "No data returned.", "")

TableShown == Msg("table", "dataframe", "")

CodeShown == Msg("code", "sql", "")

QueryHeader == Msg("subheader", "Generated SQL Query:", "")

ResultsHeader == Msg("subheader", "Query Results:", "")

OutcomeKinds == {"error", "warning", "info", "table"}

IsOutcome(m) == m.kind \in OutcomeKinds

Outcomes == SelectSeq(shown, IsOutcome)

Displayed(m) == m \in Range(shown)

(***************************************************************************)
(* Pipeline decisions                                                      *)
(***************************************************************************)
HasSalesDataAnyTable(t) == t # <<>>

\* line 153: ('sales_data',) in tables
HasSalesData(t) == <<"sales_data">> \in Range(t)

ArityMatchesAtLeast(d, c) == Len(c) >= Len(d[1])

\* line 159: len(columns) == len(data[0])
ArityMatches(d, c) == Len(c) = Len(d[1])

ShapeOutcomeEmptyChecked(d, c) ==
  IF d # <<>>
  THEN IF ArityMatches(d, c) THEN "table" ELSE "mismatch"
  ELSE IF c # <<>> THEN "mismatch" ELSE "nodata"

\* lines 157-166
ShapeOutcome(d, c) ==
  IF d # <<>>
  THEN IF ArityMatches(d, c) THEN "table" ELSE "mismatch"
  ELSE "nodata"

NoConn == [f \in {"list_tables", "read_sqlite_query"} |-> "none"]

NoCalls == [f \in {"synth", "guard", "exec"} |-> 0]

(***************************************************************************)
(* Spec: the script                                                        *)
(***************************************************************************)
Init ==
  /\ pc = "idle"
  /\ runs = 0
  /\ question = <<>>
  /\ submit = FALSE
  /\ sql_query = None
  /\ tables = <<>>
  /\ data = <<>>
  /\ columns = <<>>
  /\ shown = <<>>
  /\ df = None
  /\ conn = NoConn
  /\ calls = NoCalls
  /\ synthOutcome = "none"
  /\ guardOutcome = "none"
  /\ execOutcome = "none"
  /\ text = <<>>
  /\ once = <<>>
  /\ twice = <<>>
  /\ spc = "off"

\* lines 129-141: a rerun of the script with the widgets' current values
Submit ==
  /\ pc \in {"idle", "done"}
  /\ runs < MaxRuns
  /\ runs' = runs + 1
  /\ \E q \in Questions, b \in BOOLEAN :
       /\ question' = q
       /\ submit' = b
       /\ pc' = IF b /\ q # <<>> THEN "synth" ELSE "done"
  /\ sql_query' = None
  /\ tables' = <<>>
  /\ data' = <<>>
  /\ columns' = <<>>
  /\ shown' = <<>>
  /\ df' = None
  /\ conn' = NoConn
  /\ calls' = NoCalls
  /\ synthOutcome' = "none"
  /\ guardOutcome' = "none"
  /\ execOutcome' = "none"
  /\ UNCHANGED stripVars

\* lines 84-90 and 145-147: the collaborator returns a text
GetGeminiResponseReturns ==
  /\ pc = "synth"
  /\ \E t \in ResponseTexts :
       LET q == Some(CleanQuery(t)) IN
         /\ sql_query' = q
         /\ shown' = IF Truthy(q) THEN shown \o <<QueryHeader, CodeShown>> ELSE shown
         /\ pc' = IF Truthy(q) THEN "guard" ELSE "done"
  /\ synthOutcome' = "returned"
  /\ calls' = [calls EXCEPT !["synth"] = @ + 1]
  /\ UNCHANGED <<runs, question, submit, tables, data, columns, df, conn,
                 guardOutcome, execOutcome>>
  /\ UNCHANGED stripVars

\* lines 91-93 and 145: the collaborator call raises
GetGeminiResponseRaises ==
  /\ pc = "synth"
  /\ sql_query' = None
  /\ shown' = Append(shown, SynthErr)
  /\ pc' = "done"
  /\ synthOutcome' = "raised"
  /\ calls' = [calls EXCEPT !["synth"] = @ + 1]
  /\ UNCHANGED <<runs, question, submit, tables, data, columns, df, conn,
                 guardOutcome, execOutcome>>
  /\ UNCHANGED stripVars

\* after list_tables returned t: lines 153, 167-168
GuardGate(t, msgs) ==
  /\ tables' = t
  /\ pc' = IF HasSalesData(t) THEN "exec" ELSE "done"
  /\ shown' = IF HasSalesData(t) THEN shown \o msgs
              ELSE shown \o msgs \o <<TableMissingMsg>>
  /\ calls' = [calls EXCEPT !["guard"] = @ + 1]
  /\ UNCHANGED <<runs, question, submit, sql_query, data, columns, df,
                 synthOutcome, execOutcome>>
  /\ UNCHANGED stripVars

\* lines 115-120: the catalog is read and the connection closed
ListTablesOk ==
  /\ pc = "guard"
  /\ \E t \in Catalogs : GuardGate(t, <<>>)
  /\ conn' = [conn EXCEPT !["list_tables"] = "closed"]
  /\ guardOutcome' = "ok"

\* lines 115, 121-126: sqlite3.connect raises, no connection exists
ListTablesConnectFails ==
  /\ pc = "guard"
  /\ GuardGate(<<>>, <<Msg("error", "SQLite Error while listing tables: ", "unable to open database file")>>)
  /\ conn' = conn
  /\ guardOutcome' = "connect_failed"

\* lines 116-118, 121-126: cursor, execute or fetchall raises after connect;
\* no handler calls conn.close()
ListTablesQueryFails ==
  /\ pc = "guard"
  /\ \E m \in { Msg("error", "SQLite Error while listing tables: ", "file is not a database"),
               Msg("error", "General Error while listing tables: ", "I/O failure") } :
       GuardGate(<<>>, <<m>>)
  /\ conn' = [conn EXCEPT !["list_tables"] = "open"]
  /\ guardOutcome' = "query_failed"

\* after read_sqlite_query returned: line 154
ExecReturn(d, c, msgs) ==
  /\ data' = d
  /\ columns' = c
  /\ shown' = shown \o msgs
  /\ pc' = "shape"
  /\ calls' = [calls EXCEPT !["exec"] = @ + 1]
  /\ UNCHANGED <<runs, question, submit, sql_query, tables, df,
                 synthOutcome, guardOutcome>>
  /\ UNCHANGED stripVars

\* lines 98-104: rows and labels fetched, connection closed
ReadSqliteQueryOk ==
  /\ pc = "exec"
  /\ \E d \in RowLists, c \in ColumnLists : ExecReturn(d, c, <<>>)
  /\ conn' = [conn EXCEPT !["read_sqlite_query"] = "closed"]
  /\ execOutcome' = "ok"

\* lines 98, 105-110: sqlite3.connect raises
ReadSqliteQueryConnectFails ==
  /\ pc = "exec"
  /\ ExecReturn(<<>>, <<>>, <<Msg("error", "SQLite Error: ", "unable to open database file")>>)
  /\ conn' = conn
  /\ execOutcome' = "connect_failed"

\* lines 99-102, 105-110: execute, fetchall or the read of cur.description
\* raises after connect; no handler calls conn.close()
ReadSqliteQueryFails ==
  /\ pc = "exec"
  /\ \E m \in { Msg("error", "SQLite Error: ", "near \"SELEC\": syntax error"),
               Msg("error", "SQLite Error: ", "disk I/O error"),
               Msg("error", "General Error: ", "'NoneType' object is not iterable") } :
       ExecReturn(<<>>, <<>>, <<m>>)
  /\ conn' = [conn EXCEPT !["read_sqlite_query"] = "open"]
  /\ execOutcome' = "query_failed"

\* lines 156-166: result shaping
Shape ==
  /\ pc = "shape"
  /\ LET o == ShapeOutcome(data, columns) IN
       /\ shown' = shown \o <<ResultsHeader>> \o
                     (CASE o = "table" -> <<TableShown>>
                        [] o = "mismatch" -> <<MismatchMsg>>
                        [] OTHER -> <<NoDataMsg>>)
       /\ df' = IF o = "table" THEN Some([data |-> data, columns |-> columns]) ELSE None
  /\ pc' = "done"
  /\ UNCHANGED <<runs, question, submit, sql_query, tables, data, columns, conn,
                 calls, synthOutcome, guardOutcome, execOutcome>>
  /\ UNCHANGED stripVars

Next ==
  \/ Submit
  \/ GetGeminiResponseReturns
  \/ GetGeminiResponseRaises
  \/ ListTablesOk
  \/ ListTablesConnectFails
  \/ ListTablesQueryFails
  \/ ReadSqliteQueryOk
  \/ ReadSqliteQueryConnectFails
  \/ ReadSqliteQueryFails
  \/ Shape

Spec == Init /\ [][Next]_vars

(***************************************************************************)
(* StripSpec: lines 87-89 applied to a text, and to their own result       *)
(***************************************************************************)
Alphabet == {BT, "s", "q", "l", " "}

Fragments ==
  { <<BT>>, <<BT, BT>>, Fence, FenceSql, <<"s", "q", "l">>, <<" ">>, <<"\n">>, <<"x">> }

RECURSIVE Flatten(_)
Flatten(ps) == IF ps = <<>> THEN <<>> ELSE ps[1] \o Flatten(Tail(ps))

\* every text of at most MaxLen characters, and every concatenation of at
\* most MaxPieces fragments
Texts ==
  (UNION {[1..n -> Alphabet] : n \in 0..MaxLen})
    \cup {Flatten(ps) : ps \in UNION {[1..n -> Fragments] : n \in 0..MaxPieces}}

StripInit ==
  /\ pc = "idle"
  /\ runs = 0
  /\ question = <<>>
  /\ submit = FALSE
  /\ sql_query = None
  /\ tables = <<>>
  /\ data = <<>>
  /\ columns = <<>>
  /\ shown = <<>>
  /\ df = None
  /\ conn = NoConn
  /\ calls = NoCalls
  /\ synthOutcome = "none"
  /\ guardOutcome = "none"
  /\ execOutcome = "none"
  /\ text \in Texts
  /\ once = <<>>
  /\ twice = <<>>
  /\ spc = "start"

\* lines 87-89 on response.text
StripOnce ==
  /\ spc = "start"
  /\ once' = CleanQuery(text)
  /\ spc' = "once"
  /\ UNCHANGED <<text, twice>>
  /\ UNCHANGED pipeVars

\* lines 87-89 on their own result
StripTwice ==
  /\ spc = "once"
  /\ twice' = CleanQuery(once)
  /\ spc' = "twice"
  /\ UNCHANGED <<text, once>>
  /\ UNCHANGED pipeVars

StripNext ==
  \/ StripOnce
  \/ StripTwice

StripSpec == StripInit /\ [][StripNext]_vars

(***************************************************************************)
(* Properties                                                              *)
(***************************************************************************)
InCatalog == <<"sales_data">> \in Range(tables)

CatalogFailed == guardOutcome \in {"connect_failed", "query_failed"}

ExecFailed == execOutcome \in {"connect_failed", "query_failed"}

ErrorWith(prefixes) == \E i \in 1..Len(shown) : shown[i].kind = "error" /\ shown[i].text \in prefixes

\* C1: every connection opened by list_tables or read_sqlite_query is closed
\* when the function has returned, on the success path and on every error
\* path; no return leaves a connection open.
C1_ConnectionsAlwaysClosed == \A f \in DOMAIN conn : conn[f] # "open"

\* C2: when the catalog read by list_tables does not contain sales_data
\* (an empty catalog included) read_sqlite_query is never called for that
\* question, the pipeline has ended, and the TableMissing message is the
\* outcome.
C2_TableMissingBlocksExecution ==
  (guardOutcome # "none" /\ ~InCatalog) =>
     /\ pc = "done"
     /\ calls["exec"] = 0
     /\ execOutcome = "none"
     /\ conn["read_sqlite_query"] = "none"
     /\ Displayed(TableMissingMsg)
     /\ (guardOutcome = "ok" => Outcomes = <<TableMissingMsg>>)

C2_Witness ==
  /\ pc = "done"
  /\ guardOutcome = "ok"
  /\ tables \in {<<>>, << <<"other">> >>}
  /\ Outcomes = <<TableMissingMsg>>

\* C3: every processed non-empty question ends with exactly one outcome
\* displayed: a rendered table or one error, warning or info message.
C3_ExactlyOneOutcome ==
  (pc = "done" /\ submit /\ question # <<>>) => Len(Outcomes) = 1

\* C4: get_gemini_response either returns a non-empty string without a
\* fencing marker or reports a SynthesisFailure; it never returns a string
\* with a fencing marker and never returns an empty string.
C4_SynthesisResult ==
  synthOutcome # "none" =>
     \/ /\ sql_query # None
        /\ sql_query[1] # <<>>
        /\ ~ContainsFence(sql_query[1])
     \/ /\ sql_query = None
        /\ Displayed(SynthErr)

\* C5: the fence-stripping transformation is idempotent: applied to its own
\* result it returns that result unchanged.
C5_StripIdempotent == spc = "twice" => twice = once

C5_Witness ==
  /\ spc = "twice"
  /\ text = <<BT>> \o FenceSql \o <<BT, BT>>
  /\ once = <<>>
  /\ twice = once

\* C6: when the catalog read fails read_sqlite_query is not called and the
\* catalog-failure message is shown; the TableMissing message is shown only
\* when the catalog read succeeded and sales_data is absent from it.
C6_CatalogFailureDistinct ==
  /\ CatalogFailed =>
       /\ calls["exec"] = 0
       /\ ErrorWith({"SQLite Error while listing tables: ", "General Error while listing tables: "})
  /\ Displayed(TableMissingMsg) => (guardOutcome = "ok" /\ ~InCatalog)

\* C7: the NoData warning is shown only when the query executed
\* successfully and returned zero rows; a failed execution ends in an error
\* message with the store's text, no table, and no NoData warning.
C7_NoDataOnlyOnSuccess ==
  /\ Displayed(NoDataMsg) => (execOutcome = "ok" /\ data = <<>>)
  /\ (pc = "done" /\ ExecFailed) =>
       /\ ErrorWith({"SQLite Error: ", "General Error: "})
       /\ ~Displayed(TableShown)
       /\ df = None
       /\ ~Displayed(NoDataMsg)

\* C8: when read_sqlite_query returned at least one row and the first row's
\* arity differs from the number of column labels, shaping ends in the
\* ShapeMismatch error and no table is built; a table is built only when the
\* first row's arity equals the label count.
C8_ShapeMismatchRejected ==
  (pc = "done" /\ calls["exec"] = 1) =>
     /\ (data # <<>> /\ Len(data[1]) # Len(columns)) =>
          /\ Outcomes = <<MismatchMsg>>
          /\ df = None
     /\ (df # None \/ Displayed(TableShown)) =>
          /\ data # <<>>
          /\ Len(data[1]) = Len(columns)
          /\ df = Some([data |-> data, columns |-> columns])

C8_Witness ==
  /\ pc = "done"
  /\ execOutcome = "ok"
  /\ data # <<>>
  /\ Len(data[1]) # Len(columns)
  /\ Outcomes = <<MismatchMsg>>

\* C9: when read_sqlite_query returned zero rows the shape check is skipped
\* and the NoData warning is shown; the ShapeMismatch error is never shown
\* for a zero-row result, whatever the number of column labels.
C9_ZeroRowsIsNoData ==
  (pc = "done" /\ calls["exec"] = 1 /\ data = <<>>) =>
     /\ Displayed(NoDataMsg)
     /\ ~Displayed(MismatchMsg)
     /\ df = None
     /\ (execOutcome = "ok" => Outcomes = <<NoDataMsg>>)

C9_Witness ==
  /\ pc = "done"
  /\ execOutcome = "ok"
  /\ data = <<>>
  /\ Len(columns) = MaxArity
  /\ Outcomes = <<NoDataMsg>>

StageRank(p) ==
  CASE p = "idle" -> 0
    [] p = "synth" -> 1
    [] p = "guard" -> 2
    [] p = "exec" -> 3
    [] p = "shape" -> 4
    [] OTHER -> 5

StagesInOrder ==
  /\ \A f \in DOMAIN calls : calls[f] <= 1
  /\ calls["synth"] = 0 => pc \in {"idle", "synth", "done"} /\ calls["guard"] = 0
  /\ calls["guard"] >= 1 =>
       /\ synthOutcome = "returned"
       /\ sql_query # None
       /\ sql_query[1] # <<>>
  /\ calls["guard"] = 0 => (conn = NoConn /\ calls["exec"] = 0)
  /\ calls["exec"] >= 1 => (calls["guard"] = 1 /\ InCatalog)
  /\ pc = "synth" => calls = NoCalls
  /\ pc = "guard" => (calls["synth"] = 1 /\ calls["guard"] = 0)
  /\ pc = "exec" => (calls["guard"] = 1 /\ calls["exec"] = 0)
  /\ pc = "shape" => calls["exec"] = 1

\* C10: per question the stages run in the order synthesizer, schema guard,
\* executor, each at most once and each after the previous one returned: the
\* catalog is read only after a non-empty query was synthesized (otherwise
\* the store is not touched), the executor runs only after the catalog read
\* found sales_data, and within a question no step goes back to an earlier
\* stage.
C10_StageOrder ==
  /\ []StagesInOrder
  /\ [][runs' = runs => StageRank(pc') > StageRank(pc)]_vars

C10_Witness ==
  /\ pc = "done"
  /\ calls = [f \in {"synth", "guard", "exec"} |-> 1]
  /\ df # None

====
